---------------------------- MODULE Spec2Model ----------------------------
(***************************************************************************)
(* State-machine model of src/components/SearchClient.tsx: the React       *)
(* component that filters a static list of icon records, shows the result  *)
(* as cards, copies import text with a two-second confirmation, and reacts *)
(* to the Cmd/Ctrl+K and double-Escape keyboard shortcuts.                  *)
(*                                                                         *)
(* JavaScript strings are modelled as sequences of one-character strings,  *)
(* so that toLowerCase, trim, includes, split and join are computed        *)
(* character by character.                                                 *)
(***************************************************************************)
EXTENDS Integers, Sequences, FiniteSets, TLC

(***************************************************************************)
(* Bounds of the model.                                                    *)
(***************************************************************************)
\* longest text the user puts into the search box
MaxQueryLen == 2
\* longest icon list handed to the component
MaxIcons == 2
\* most setTimeout callbacks pending at once
MaxTimers == 2
\* longest generated import_path in the rendering specification
MaxPathLen == 4
\* value of Date.now() when the component is mounted (milliseconds)
StartTime == 100000
\* longest text typed in the full-session specification
MaxTyped == 1
\* milliseconds per clock step, and of session time, in the full specification
TickMs == 1000
MaxElapsed == 2000
\* milliseconds per clock step, and of session time, in the keyboard
\* specification
KeyTickMs == 100
MaxKeyElapsed == 800

(***************************************************************************)
(* Program constants.                                                      *)
(***************************************************************************)
\* double-press window of handleKeyDown
EscapeWindowMs == 300
\* delay of the copy confirmation's setTimeout
CopyClearMs == 2000

\* the value null of `copied`, in the shape of the card identifiers
NULL == [kind |-> "null", idx |-> -1]
\* no icon: value of the copiedIcon history variable while copied is null
NoIcon == [name |-> <<>>, import_path |-> <<>>, provider |-> <<>>]

(***************************************************************************)
(* JavaScript string primitives.                                           *)
(***************************************************************************)
UpperChars == <<"A","B","C","D","E","F","G","H","I","J","K","L","M",
                "N","O","P","Q","R","S","T","U","V","W","X","Y","Z">>

LowerChars == <<"a","b","c","d","e","f","g","h","i","j","k","l","m",
                "n","o","p","q","r","s","t","u","v","w","x","y","z">>

WhiteSpace == {" ", "\t", "\n"}

\* toLowerCase of one character
LowerChar(c) ==
    IF \E i \in DOMAIN UpperChars : UpperChars[i] = c
    THEN LowerChars[CHOOSE i \in DOMAIN UpperChars : UpperChars[i] = c]
    ELSE c

\* String.prototype.toLowerCase
ToLowerCase(s) == [i \in 1..Len(s) |-> LowerChar(s[i])]

\* String.prototype.includes: t occurs in s at some position
Includes(s, t) ==
    \E i \in 0..(Len(s) - Len(t)) : SubSeq(s, i + 1, i + Len(t)) = t

RECURSIVE TrimStart(_)
TrimStart(s) ==
    IF s # <<>> /\ Head(s) \in WhiteSpace THEN TrimStart(Tail(s)) ELSE s

RECURSIVE TrimEnd(_)
TrimEnd(s) ==
    IF s # <<>> /\ s[Len(s)] \in WhiteSpace
    THEN TrimEnd(SubSeq(s, 1, Len(s) - 1))
    ELSE s

\* String.prototype.trim
Trim(s) == TrimEnd(TrimStart(s))

\* String.prototype.split(sep) for a one-character separator: the segments
\* between the separators, always at least one segment
RECURSIVE Split(_, _)
Split(s, sep) ==
    IF \E i \in 1..Len(s) : s[i] = sep
    THEN LET i == CHOOSE k \in 1..Len(s) :
                      s[k] = sep /\ \A j \in 1..(k - 1) : s[j] # sep
         IN  <<SubSeq(s, 1, i - 1)>> \o Split(SubSeq(s, i + 1, Len(s)), sep)
    ELSE <<s>>

\* Array.prototype.join(sep)
RECURSIVE Join(_, _)
Join(parts, sep) ==
    IF parts = <<>> THEN <<>>
    ELSE IF Len(parts) = 1 THEN parts[1]
    ELSE parts[1] \o <<sep>> \o Join(Tail(parts), sep)

\* Array.prototype.slice(0, -1)
SliceButLast(parts) == SubSeq(parts, 1, Len(parts) - 1)

(***************************************************************************)
(* Text constants of the source and of the inputs.                         *)
(***************************************************************************)
Kaws == <<"a","w","s">>
Kazure == <<"a","z","u","r","e">>
Kgcp == <<"g","c","p">>
Kgoogle == <<"g","o","o","g","l","e">>
Kk8s == <<"k","8","s">>
Kkubernetes == <<"k","u","b","e","r","n","e","t","e","s">>
Kalibaba == <<"a","l","i","b","a","b","a">>

\* provider labels used as inputs
PAzure == <<"A","z","u","r","e">>
PGoogleCloud == <<"G","o","o","g","l","e"," ","C","l","o","u","d">>
PKubernetes == <<"K","u","b","e","r","n","e","t","e","s">>
PUnknownCorp == <<"U","n","k","n","o","w","n"," ","C","o","r","p">>
PAWS == <<"A","W","S">>
PAlibabaCloud == <<"A","l","i","b","a","b","a"," ","C","l","o","u","d">>
Pk8sOnAws == <<"k","8","s"," ","o","n"," ","a","w","s">>

Providers ==
    {Kaws, Kazure, Kgcp, Kk8s, PAzure, PGoogleCloud, PKubernetes,
     PUnknownCorp, PAWS, PAlibabaCloud, Pk8sOnAws,
     ToLowerCase(PGoogleCloud), ToLowerCase(PKubernetes),
     ToLowerCase(PUnknownCorp), ToLowerCase(PAlibabaCloud)}

AwsComputeEC2 == <<"a","w","s",".","c","o","m","p","u","t","e",".","E","C","2">>
AzureComputeAKS ==
    <<"a","z","u","r","e",".","c","o","m","p","u","t","e",".","A","K","S">>

\* the two records of the scenario list
IconEC2 == [name |-> <<"E","C","2">>, import_path |-> AwsComputeEC2,
            provider |-> Kaws]
IconAKS == [name |-> <<"A","K","S">>, import_path |-> AzureComputeAKS,
            provider |-> Kazure]

IconUniverse == {IconEC2, IconAKS}

\* all sequences over S of length at most n
SeqsUpTo(S, n) == UNION {[1..k -> S] : k \in 0..n}

\* the icon lists the component may be mounted with
IconLists == SeqsUpTo(IconUniverse, MaxIcons)

\* the list of the documented scenario
ScenarioIcons == <<IconEC2, IconAKS>>

QueryAlphabet == {"k", "K", "s", " "}

\* the values the search box may report through onChange
QueryStrings == SeqsUpTo(QueryAlphabet, MaxQueryLen)

\* the values typed in the full-session specification
SessionQueries == SeqsUpTo({"k", " "}, MaxTyped)

PathAlphabet == {"a", "B", "."}

\* import paths of the rendering specification: every short path, with and
\* without separators, and the documented example
ImportPaths == SeqsUpTo(PathAlphabet, MaxPathLen) \cup {AwsComputeEC2}

(***************************************************************************)
(* State of the component.                                                 *)
(***************************************************************************)
VARIABLES
    icons,           \* props.icons, read-only
    query,           \* useState("")
    copied,          \* useState<string | null>(null): NULL or a card id
    showAll,         \* useState(false)
    theme,           \* useState<"light" | "dark">
    focused,         \* whether the search input (inputRef) has focus
    lastEscapeTime,  \* useRef<number>(0)
    now,             \* Date.now()
    timers,          \* pending setTimeout callbacks, in scheduling order
    copiedIcon       \* history: the record on whose card copied was set

vars == <<icons, query, copied, showAll, theme, focused, lastEscapeTime,
          now, timers, copiedIcon>>

(***************************************************************************)
(* Derived values of one render.                                           *)
(***************************************************************************)
\* the filter with the query compared as typed, not lower-cased
FilterIconsRawQuery(list, q, all) ==
    IF Trim(q) = <<>> /\ ~all THEN <<>>
    ELSE LET Keep(icon) ==
                 \/ Includes(ToLowerCase(icon.name), q)
                 \/ Includes(ToLowerCase(icon.import_path), q)
         IN  SelectSeq(list, Keep)

\* the filter without the early return for an idle search box
FilterIconsNoEarlyReturn(list, q, all) ==
    LET lowerQuery == ToLowerCase(q)
        Keep(icon) ==
            \/ Includes(ToLowerCase(icon.name), lowerQuery)
            \/ Includes(ToLowerCase(icon.import_path), lowerQuery)
    IN  SelectSeq(list, Keep)

\* the filter with an early return that ignores showAll
FilterIconsEmptyOnBlank(list, q, all) ==
    IF Trim(q) = <<>> THEN <<>>
    ELSE LET lowerQuery == ToLowerCase(q)
             Keep(icon) ==
                 \/ Includes(ToLowerCase(icon.name), lowerQuery)
                 \/ Includes(ToLowerCase(icon.import_path), lowerQuery)
         IN  SelectSeq(list, Keep)

\* the useMemo body of `filtered`
FilterIcons(list, q, all) ==
    IF Trim(q) = <<>> /\ ~all THEN <<>>
    ELSE LET lowerQuery == ToLowerCase(q)
             Keep(icon) ==
                 \/ Includes(ToLowerCase(icon.name), lowerQuery)
                 \/ Includes(ToLowerCase(icon.import_path), lowerQuery)
         IN  SelectSeq(list, Keep)

filtered == FilterIcons(icons, query, showAll)

hasResults == Len(filtered) > 0

isSearching == Len(Trim(query)) > 0

\* the import parts with the first segment taken as the class name
getImportPartsFirstSegment(icon) ==
    LET parts == Split(icon.import_path, ".")
    IN  [className |-> parts[1],
         modulePath |-> Join(SliceButLast(parts), ".")]

getImportParts(icon) ==
    LET parts == Split(icon.import_path, ".")
    IN  [className |-> parts[Len(parts)],
         modulePath |-> Join(SliceButLast(parts), ".")]

normalizeProvider(p) ==
    IF Includes(p, Kaws) THEN "aws"
    ELSE IF Includes(p, Kazure) THEN "azure"
    ELSE IF Includes(p, Kgcp) \/ Includes(p, Kgoogle) THEN "gcp"
    ELSE IF Includes(p, Kk8s) \/ Includes(p, Kkubernetes) THEN "k8s"
    ELSE IF Includes(p, Kalibaba) THEN "alibabacloud"
    ELSE "default"

\* `card-${idx}` and `path-${idx}`, idx counted from 0 as in filtered.map
copyId(idx) == [kind |-> "card", idx |-> idx]

pathId(idx) == [kind |-> "path", idx |-> idx]

\* indexes of the cards of the current render
CardIdx == 0..(Len(filtered) - 1)

\* the record shown by card idx
CardIcon(idx) == filtered[idx + 1]

\* the card shows the "Copied!" message or the check mark
ShowsConfirmation(idx) == copied = pathId(idx) \/ copied = copyId(idx)

\* the clear button is rendered
clearBtnVisible == query # <<>>

\* the Browse-all toggle is rendered
showAllToggleVisible == ~isSearching

(***************************************************************************)
(* Initial state: the component after mount.                               *)
(***************************************************************************)
InitState ==
    /\ query = <<>>
    /\ copied = NULL
    /\ showAll = FALSE
    /\ theme \in {"light", "dark"}
    /\ focused = FALSE
    /\ lastEscapeTime = 0
    /\ now = StartTime
    /\ timers = <<>>
    /\ copiedIcon = NoIcon

Init == icons \in IconLists /\ InitState

(***************************************************************************)
(* Event handlers.                                                         *)
(***************************************************************************)
\* onChange of the search input
Type(v) ==
    /\ query' = v
    /\ UNCHANGED <<icons, copied, showAll, theme, focused, lastEscapeTime,
                   now, timers, copiedIcon>>

\* a clear button that also leaves Browse-all mode
ClearBtnResetsShowAll ==
    /\ query # <<>>
    /\ query' = <<>>
    /\ showAll' = FALSE
    /\ UNCHANGED <<icons, copied, theme, focused, lastEscapeTime,
                   now, timers, copiedIcon>>

\* onClick of the clear button
ClearBtn ==
    /\ clearBtnVisible
    /\ query' = <<>>
    /\ UNCHANGED <<icons, copied, showAll, theme, focused, lastEscapeTime,
                   now, timers, copiedIcon>>

\* onClick of the Browse-all toggle
ToggleShowAll ==
    /\ showAllToggleVisible
    /\ showAll' = ~showAll
    /\ UNCHANGED <<icons, query, copied, theme, focused, lastEscapeTime,
                   now, timers, copiedIcon>>

toggleTheme ==
    /\ theme' = IF theme = "light" THEN "dark" ELSE "light"
    /\ UNCHANGED <<icons, query, copied, showAll, focused, lastEscapeTime,
                   now, timers, copiedIcon>>

\* handleKeyDown for Cmd/Ctrl+K
CmdK ==
    /\ focused' = TRUE
    /\ UNCHANGED <<icons, query, copied, showAll, theme, lastEscapeTime,
                   now, timers, copiedIcon>>

\* the Escape handler with the window closed at 300 ms inclusive
EscapeInclusive ==
    /\ IF now - lastEscapeTime <= EscapeWindowMs
       THEN query' = <<>> /\ focused' = FALSE
       ELSE UNCHANGED <<query, focused>>
    /\ lastEscapeTime' = now
    /\ UNCHANGED <<icons, copied, showAll, theme, now, timers, copiedIcon>>

\* handleKeyDown for Escape
Escape ==
    /\ IF now - lastEscapeTime < EscapeWindowMs
       THEN query' = <<>> /\ focused' = FALSE
       ELSE UNCHANGED <<query, focused>>
    /\ lastEscapeTime' = now
    /\ UNCHANGED <<icons, copied, showAll, theme, now, timers, copiedIcon>>

\* copyToClipboard(text, id), called from the card at index idx
copyToClipboard(id, icon) ==
    /\ Len(timers) < MaxTimers
    /\ copied' = id
    /\ timers' = Append(timers, [id |-> id, due |-> now + CopyClearMs])
    /\ copiedIcon' = icon
    /\ UNCHANGED <<icons, query, showAll, theme, focused, lastEscapeTime,
                   now>>

\* onClick of the full-path text of card idx
CopyPath(idx) ==
    /\ idx \in CardIdx
    /\ copyToClipboard(pathId(idx), CardIcon(idx))

\* onClick of the copy button of card idx
CopyImport(idx) ==
    /\ idx \in CardIdx
    /\ copyToClipboard(copyId(idx), CardIcon(idx))

\* the callback of the oldest pending setTimeout runs
TimerFire ==
    /\ timers # <<>>
    /\ Head(timers).due <= now
    /\ copied' = NULL
    /\ copiedIcon' = NoIcon
    /\ timers' = Tail(timers)
    /\ UNCHANGED <<icons, query, showAll, theme, focused, lastEscapeTime,
                   now>>

\* d milliseconds pass, up to `limit` milliseconds after mount
Advance(d, limit) ==
    /\ now + d <= StartTime + limit
    /\ now' = now + d
    /\ UNCHANGED <<icons, query, copied, showAll, theme, focused,
                   lastEscapeTime, timers, copiedIcon>>

(***************************************************************************)
(* Full-session specification: every handler, the timers and the clock,    *)
(* on the scenario list.                                                   *)
(***************************************************************************)
Tick == Advance(TickMs, MaxElapsed)

Next ==
    \/ \E v \in SessionQueries : Type(v)
    \/ ClearBtn
    \/ ToggleShowAll
    \/ toggleTheme
    \/ CmdK
    \/ Escape
    \/ \E idx \in 0..(MaxIcons - 1) : CopyPath(idx)
    \/ \E idx \in 0..(MaxIcons - 1) : CopyImport(idx)
    \/ TimerFire
    \/ Tick

InitSession == icons = ScenarioIcons /\ InitState

Spec == InitSession /\ [][Next]_vars

(***************************************************************************)
(* Search specification: every icon list and every query text, under the   *)
(* events of the search bar, the theme control and the keyboard.           *)
(***************************************************************************)
NextSearch ==
    \/ \E v \in QueryStrings : Type(v)
    \/ ClearBtn
    \/ ToggleShowAll
    \/ toggleTheme
    \/ CmdK
    \/ Escape

SpecSearch == Init /\ [][NextSearch]_vars

(***************************************************************************)
(* Keyboard specification: the search box and the shortcuts, with the      *)
(* clock in steps fine enough to separate the double-press window.         *)
(***************************************************************************)
KeyTick == Advance(KeyTickMs, MaxKeyElapsed)

NextKeys ==
    \/ \E v \in QueryStrings : Type(v)
    \/ ClearBtn
    \/ CmdK
    \/ Escape
    \/ KeyTick

SpecKeys == InitSession /\ [][NextKeys]_vars

(***************************************************************************)
(* Rendering specification: one card for each import path and provider     *)
(* label, shown through Browse all or through a query.                     *)
(***************************************************************************)
InitRender ==
    /\ \E ip \in ImportPaths, p \in Providers :
          icons = <<[name |-> <<"k">>, import_path |-> ip, provider |-> p]>>
    /\ InitState

NextRender ==
    \/ \E v \in SessionQueries : Type(v)
    \/ ClearBtn
    \/ ToggleShowAll

SpecRender == InitRender /\ [][NextRender]_vars

(***************************************************************************)
(* Vocabulary of the properties.                                           *)
(***************************************************************************)
\* a and b are the same character up to letter case
SameLetter(a, b) ==
    \/ a = b
    \/ \E i \in DOMAIN UpperChars :
          {a, b} = {UpperChars[i], LowerChars[i]}

\* s and t are the same text up to letter case
SameUpToCase(s, t) ==
    /\ Len(s) = Len(t)
    /\ \A i \in 1..Len(s) : SameLetter(s[i], t[i])

\* q occurs in text, letter case ignored
OccursIgnoringCase(text, q) ==
    \E off \in 0..Len(text) :
        /\ off + Len(q) <= Len(text)
        /\ \A k \in 1..Len(q) : SameLetter(text[off + k], q[k])

\* the record passes the name check or the import_path check
PassesCheck(icon, q) ==
    \/ OccursIgnoringCase(icon.name, q)
    \/ OccursIgnoringCase(icon.import_path, q)

\* res is list with exactly the records failing the check for q left out
IsMatchingSubsequence(res, list, q) ==
    \E f \in [1..Len(res) -> 1..Len(list)] :
        /\ \A a, b \in 1..Len(res) : a < b => f[a] < f[b]
        /\ \A a \in 1..Len(res) : res[a] = list[f[a]]
        /\ {f[a] : a \in 1..Len(res)}
              = {i \in 1..Len(list) : PassesCheck(list[i], q)}

\* the text contains the separator of import paths
HasSeparator(path) == \E i \in 1..Len(path) : path[i] = "."

\* the step runs the callback of the oldest pending timer
TimerFires == timers # <<>> /\ timers' = Tail(timers)

\* the step is an Escape key press
EscapePressed == lastEscapeTime' # lastEscapeTime

\* the step clears the query and blurs the search box
ClearsAndBlurs == query' = <<>> /\ focused' = FALSE

(***************************************************************************)
(* Properties.                                                             *)
(***************************************************************************)
\* C1: whenever the trimmed query is non-empty or showAll is true, filtered
\* is exactly the subsequence of icons (order kept, nothing added, nothing
\* dropped) of the records whose name or import_path contains the query,
\* letter case ignored; and every query that differs from the current one
\* only in letter case gives the same result.
C1_FilteredIsMatchingSubsequence ==
    (Trim(query) # <<>> \/ showAll) =>
        /\ IsMatchingSubsequence(filtered, icons, query)
        /\ \A i \in 1..Len(filtered) : PassesCheck(filtered[i], query)
        /\ \A q2 \in QueryStrings :
              SameUpToCase(q2, query) =>
                  FilterIcons(icons, q2, showAll) = filtered

\* C1 witness: an upper-case query selects AKS out of the scenario list
C1_Witness ==
    /\ icons = ScenarioIcons
    /\ query = <<"K">>
    /\ filtered = <<IconAKS>>

\* C2: in every state reached by the user's events, if the query is empty
\* and showAll is false, the filter gives the empty sequence, on the
\* component's icon list and on every other icon list.
C2_EmptyQueryNoBrowseShowsNothing ==
    (query = <<>> /\ ~showAll) =>
        /\ filtered = <<>>
        /\ \A list \in IconLists : FilterIcons(list, query, showAll) = <<>>

\* C2 witness: back at an empty query without Browse all after Escape
\* presses, with a copy confirmation on display and its timer pending
C2_Witness ==
    /\ query = <<>> /\ ~showAll
    /\ icons # <<>>
    /\ lastEscapeTime # 0
    /\ copied # NULL
    /\ timers # <<>>

\* C5: with showAll true and the empty query, filtered is the whole icon
\* list in its original order.
C5_BrowseAllShowsWholeList ==
    (showAll /\ query = <<>>) => filtered = icons

\* C5 witness: Browse all on the scenario list
C5_Witness ==
    /\ showAll /\ query = <<>>
    /\ icons = ScenarioIcons
    /\ Len(filtered) = 2

\* C9: whenever the Browse-all toggle is visible (the trimmed query is
\* empty) and showAll is true, filtered is the whole icon list.
C9_ToggleVisibleBrowseAllShowsWholeList ==
    (showAllToggleVisible /\ showAll) => filtered = icons

\* C6: showAll changes only in a click on the visible Browse-all toggle,
\* which changes nothing else; in particular no change of the query
\* changes showAll.
C6_ShowAllChangesOnlyByToggle ==
    [][/\ showAll' # showAll =>
            /\ showAllToggleVisible
            /\ UNCHANGED <<icons, query, copied, theme, focused,
                           lastEscapeTime, now, timers, copiedIcon>>
       /\ query' # query => showAll' = showAll]_vars

\* C6 witness: showAll is still true while the user is searching, with a
\* copy confirmation on display
C6_Witness ==
    /\ showAll
    /\ isSearching
    /\ copied # NULL

\* C3: when a scheduled clear fires, copied is reset to none only if it
\* still equals the identifier that scheduled the timer; otherwise it is
\* left as it is, so a later copy's confirmation survives.
C3_StaleTimerKeepsLaterCopy ==
    [][TimerFires =>
          IF copied = Head(timers).id
          THEN copied' = NULL
          ELSE copied' = copied]_vars

\* C10: a card displays the copy confirmation only if it shows the record
\* whose copy action set copied.
C10_ConfirmationOnlyOnCopiedRecord ==
    \A idx \in CardIdx :
        ShowsConfirmation(idx) => CardIcon(idx) = copiedIcon

C7_ProviderTagIgnoresCase ==
    \A idx \in CardIdx :
        LET p == CardIcon(idx).provider
            tag == normalizeProvider(p)
        IN  /\ p = PAzure => tag = "azure"
            /\ p = PGoogleCloud => tag = "gcp"
            /\ p = PKubernetes => tag = "k8s"
            /\ p = PUnknownCorp => tag = "default"
            /\ tag = normalizeProvider(ToLowerCase(p))

\* C8: for every card, className is the final dot-separated segment of
\* import_path and modulePath is what precedes it: with a separator,
\* modulePath + "." + className is import_path and className holds no
\* separator; without one, className is import_path and modulePath is
\* empty; "aws.compute.EC2" gives "EC2" and "aws.compute".
C8_ImportPartsSplitAtLastSeparator ==
    \A idx \in CardIdx :
        LET path == CardIcon(idx).import_path
            parts == getImportParts(CardIcon(idx))
        IN  /\ ~HasSeparator(parts.className)
            /\ HasSeparator(path) =>
                  parts.modulePath \o <<".">> \o parts.className = path
            /\ ~HasSeparator(path) =>
                  parts.className = path /\ parts.modulePath = <<>>
            /\ path = AwsComputeEC2 =>
                  /\ parts.className = <<"E","C","2">>
                  /\ parts.modulePath
                        = <<"a","w","s",".","c","o","m","p","u","t","e">>

\* C8 witness: the card of "aws.compute.EC2" is rendered
C8_Witness ==
    /\ hasResults
    /\ CardIcon(0).import_path = AwsComputeEC2

=============================================================================
